---- MODULE Spec2Model ----
(***************************************************************************)
(* Client-side localization scripts of the izutech.fr marketing site.      *)
(*                                                                         *)
(* The repository holds several per-page variants of one script.  The      *)
(* variable `page` says which variant is loaded in the modelled page:      *)
(*   "main"    src/unnamed/part_000 lines 222-659 (fetch chain, i18n)      *)
(*   "main_v1" src/unnamed/part_002 (earlier copy of the main page)        *)
(*   "script"  src/script.js (async loadTranslations)                      *)
(*   "legacy"  src/unnamed/part_003 (promise based, inline key walk)       *)
(*   "tech"    src/unnamed/part_000 lines 40-220 (technical page)          *)
(*                                                                         *)
(* JavaScript strings are sequences of one-character strings, so that      *)
(* split, startsWith, property look-up and string conversion are computed. *)
(***************************************************************************)
EXTENDS Integers, Sequences, FiniteSets, TLC

(***************************************************************************)
(* String literals of the source.                                          *)
(***************************************************************************)
EN == <<"e", "n">>
FR == <<"f", "r">>
DE == <<"d", "e">>
Empty == <<>>
K_lang == <<"l", "a", "n", "g">>
K_utm == <<"u", "t", "m">>
K_meta == <<"m", "e", "t", "a">>
K_title == <<"t", "i", "t", "l", "e">>
K_description == <<"d", "e", "s", "c", "r", "i", "p", "t", "i", "o", "n">>
K_hero == <<"h", "e", "r", "o">>
K_form == <<"f", "o", "r", "m">>
K_name == <<"n", "a", "m", "e">>
K_alt == <<"a", "l", "t">>
K_cta == <<"c", "t", "a">>
K_note == <<"n", "o", "t", "e">>
K_gone == <<"g", "o", "n", "e">>
K_msg == <<"m", "s", "g">>
K_length == <<"l", "e", "n", "g", "t", "h">>
K_technical == <<"t", "e", "c", "h", "n", "i", "c", "a", "l">>
Dot == <<".">>
Dash == <<"-">>
ObjectString == <<"[", "o", "b", "j", "e", "c", "t", " ", "O", "b", "j", "e", "c", "t", "]">>
baseURL == <<"h", "t", "t", "p", "s", ":", "/", "/", "i", "z", "u", "t", "e", "c", "h", ".", "f", "r">>
Digits == <<"0", "1", "2", "3", "4", "5", "6", "7", "8", "9">>

(***************************************************************************)
(* JavaScript values.  Every value carries the same four fields so that    *)
(* any two values can be compared: t is the typeof tag ("null" for null),  *)
(* s the characters of a string, n a number, o the own properties of an    *)
(* object (a function from property names to values).                      *)
(***************************************************************************)
Undefined == [t |-> "undefined", s |-> <<>>, n |-> 0, o |-> <<>>]
Null == [t |-> "null", s |-> <<>>, n |-> 0, o |-> <<>>]
Str(chars) == [t |-> "string", s |-> chars, n |-> 0, o |-> <<>>]
Num(k) == [t |-> "number", s |-> <<>>, n |-> k, o |-> <<>>]
Obj(props) == [t |-> "object", s |-> <<>>, n |-> 0, o |-> props]
EmptyObject == Obj(<<>>)

\* ToBoolean, as applied by `a && b`, `!a`, `a || b` and `if (a)`.
Truthy(x) ==
    CASE x.t = "undefined" -> FALSE
      [] x.t = "null" -> FALSE
      [] x.t = "string" -> x.s # <<>>
      [] x.t = "number" -> x.n # 0
      [] OTHER -> TRUE

\* The index a property name denotes ("0".."9"), or -1.
IndexOf(key) ==
    IF Len(key) = 1 /\ \E d \in 1..Len(Digits) : Digits[d] = key[1]
    THEN (CHOOSE d \in 1..Len(Digits) : Digits[d] = key[1]) - 1
    ELSE -1

\* current[key] for a value that is neither undefined nor null: an own
\* property of an object; the length and the indexed characters of a string
\* (a primitive string is boxed for the access); undefined for anything else.
Get(current, key) ==
    CASE current.t = "object" ->
           IF key \in DOMAIN current.o THEN current.o[key] ELSE Undefined
      [] current.t = "string" ->
           IF key = K_length THEN Num(Len(current.s))
           ELSE IF IndexOf(key) >= 0 /\ IndexOf(key) < Len(current.s)
                THEN Str(<<current.s[IndexOf(key) + 1]>>)
                ELSE Undefined
      [] OTHER -> Undefined

\* JSString is String(value), as applied by setAttribute, textContent and value setters.
JSString(x) ==
    CASE x.t = "string" -> x.s
      [] x.t = "number" -> IF x.n \in 0..9 THEN <<Digits[x.n + 1]>>
                           ELSE <<Digits[(x.n \div 10) + 1], Digits[(x.n % 10) + 1]>>
      [] x.t = "object" -> ObjectString
      [] x.t = "null" -> <<"n", "u", "l", "l">>
      [] OTHER -> <<"u", "n", "d", "e", "f", "i", "n", "e", "d">>

\* String.prototype.split(sep) for a one-character separator.
RECURSIVE SplitFrom(_, _, _)
SplitFrom(str, sep, acc) ==
    IF str = <<>> THEN <<acc>>
    ELSE IF <<Head(str)>> = sep
         THEN <<acc>> \o SplitFrom(Tail(str), sep, <<>>)
         ELSE SplitFrom(Tail(str), sep, Append(acc, Head(str)))

Split(str, sep) == SplitFrom(str, sep, <<>>)

\* String.prototype.startsWith(prefix).
StartsWith(str, prefix) ==
    /\ Len(str) >= Len(prefix)
    /\ SubSeq(str, 1, Len(prefix)) = prefix

\* Array.prototype.join with a dotted key's segments: a.b.c
RECURSIVE Dotted(_)
Dotted(segs) ==
    IF Len(segs) = 0 THEN <<>>
    ELSE IF Len(segs) = 1 THEN segs[1]
    ELSE segs[1] \o Dot \o Dotted(Tail(segs))

(***************************************************************************)
(* Key resolvers.                                                           *)
(***************************************************************************)
\* path.split('.').  The split of the keys the pages use is computed once
\* and looked up afterwards; any other path is split on the spot.
KnownPaths ==
    { Dotted(<<K_meta, K_title>>), Dotted(<<K_meta, K_description>>),
      Dotted(<<K_hero, K_title>>), Dotted(<<K_hero, K_alt>>),
      Dotted(<<K_hero, K_title, K_length>>), Dotted(<<K_form, K_name>>),
      Dotted(<<K_form, K_msg>>), K_cta, K_gone, K_note }
SplitKnown == [path \in KnownPaths |-> Split(path, Dot)]
splitPath(path) == IF path \in KnownPaths THEN SplitKnown[path] ELSE Split(path, Dot)

\* getNestedValue of the main page: path.split('.').reduce(step, obj) with
\* step = current && current[key] !== undefined ? current[key] : null
RECURSIVE ReduceNull(_, _)
ReduceNull(current, keys) ==
    IF keys = <<>> THEN current
    ELSE ReduceNull(IF Truthy(current) /\ Get(current, Head(keys)) # Undefined
                    THEN Get(current, Head(keys)) ELSE Null,
                    Tail(keys))

getNestedValue(obj, path) == ReduceNull(obj, splitPath(path))

\* getNestedValue of script.js: the same reduce, yielding undefined.
RECURSIVE ReduceUndefined(_, _)
ReduceUndefined(current, keys) ==
    IF keys = <<>> THEN current
    ELSE ReduceUndefined(IF Truthy(current) /\ Get(current, Head(keys)) # Undefined
                         THEN Get(current, Head(keys)) ELSE Undefined,
                         Tail(keys))

getNestedValueScript(obj, path) == ReduceUndefined(obj, splitPath(path))

\* The inline key walk of the legacy page:
\*   for (const k of keys) { if (value && value[k]) value = value[k];
\*                           else { value = null; break; } }
RECURSIVE WalkKeys(_, _)
WalkKeys(value, keys) ==
    IF keys = <<>> THEN value
    ELSE IF Truthy(value) /\ Truthy(Get(value, Head(keys)))
         THEN WalkKeys(Get(value, Head(keys)), Tail(keys))
         ELSE Null

inlineKeyWalk(translations, key) == WalkKeys(translations, splitPath(key))

(***************************************************************************)
(* Bounds of the model.                                                     *)
(***************************************************************************)
\* User events (typing, menu clicks, language changes) per page session.
MaxEvents == 2
\* Requests in flight at once: two at startup plus one per language change.
MaxPending == 4

(***************************************************************************)
(* The document.  An element is [tag, attrs, value, text]; attrs maps the  *)
(* attributes the element carries to their values.  A head node is a meta  *)
(* tag [tag, key, hreflang, content] (key is its name or property) or a    *)
(* link [tag, key, hreflang, content] (key is its rel, content its href).  *)
(***************************************************************************)
T_Home == <<"H", "o", "m", "e">>
T_Accueil == <<"A", "c", "c", "u", "e", "i", "l">>
T_Site == <<"S", "i", "t", "e">>
T_LeSite == <<"L", "e", " ", "s", "i", "t", "e">>
T_Hi == <<"H", "i">>
T_Salut == <<"S", "a", "l", "u", "t">>
T_Logo == <<"L", "o", "g", "o">>
T_Name == <<"N", "a", "m", "e">>
T_Nom == <<"N", "o", "m">>
T_Go == <<"G", "o">>
T_Va == <<"V", "a">>
T_New == <<"N", "e", "w">>
T_Msg == <<"M", "s", "g">>
T_Baked == <<"B", "a", "k", "e", "d">>
T_Typed == <<"B", "o", "b">>
T_Tech == <<"T", "e", "c", "h">>
T_Stack == <<"S", "t", "a", "c", "k">>
T_Pile == <<"P", "i", "l", "e">>
XDefault == <<"x", "-", "d", "e", "f", "a", "u", "l", "t">>
LocaleEN == <<"e", "n", "_", "U", "S">>
LocaleFR == <<"f", "r", "_", "F", "R">>

\* The i18n.json payloads the server may deliver.
BundleEN ==
    Obj(K_meta :> Obj(K_title :> Str(T_Home) @@ K_description :> Str(T_Site))
        @@ K_hero :> Obj(K_title :> Str(T_Hi) @@ K_alt :> Str(T_Logo))
        @@ K_form :> Obj(K_name :> Str(T_Name) @@ K_msg :> Str(T_Msg))
        @@ K_cta :> Str(T_Go)
        @@ K_note :> Str(T_New)
        @@ K_technical :> Obj(K_meta :> Obj(K_title :> Str(T_Tech) @@ K_description :> Str(T_Stack))))

BundleFR ==
    Obj(K_meta :> Obj(K_title :> Str(T_Accueil) @@ K_description :> Str(T_LeSite))
        @@ K_hero :> Obj(K_title :> Str(T_Salut) @@ K_alt :> Null)
        @@ K_form :> Obj(K_name :> Str(T_Nom))
        @@ K_cta :> Str(T_Va)
        @@ K_note :> Str(<<>>)
        @@ K_technical :> Obj(K_meta :> Obj(K_title :> Str(T_Tech) @@ K_description :> Str(T_Pile))))

PayloadFull == Obj(EN :> BundleEN @@ FR :> BundleFR)
PayloadOnlyEN == Obj(EN :> BundleEN)
PayloadScenario ==
    Obj(EN :> Obj(K_meta :> Obj(K_title :> Str(T_Home)))
        @@ FR :> Obj(K_meta :> Obj(K_title :> Str(T_Accueil))))
Payloads == {PayloadFull, PayloadOnlyEN, PayloadScenario}

\* One request for i18n.json either delivers the payload or fails: the fetch
\* is rejected (network), the status is not ok, or the body is not JSON.
\* Every page sends all three failures down the same path (its catch), so
\* what a request yields is the boolean ok.

Element(tag, attrs, text) ==
    [tag |-> tag, attrs |-> attrs, value |-> <<>>, text |-> text]

PageElements ==
    << Element("H1", "data-i18n" :> Dotted(<<K_hero, K_title>>), T_Baked),
       Element("INPUT", "data-i18n" :> Dotted(<<K_form, K_name>>) @@ "placeholder" :> T_Baked, <<>>),
       Element("IMG", "data-i18n" :> Dotted(<<K_hero, K_alt>>) @@ "alt" :> T_Baked, <<>>),
       Element("BUTTON", "data-i18n" :> K_cta @@ "aria-label" :> T_Baked, T_Baked),
       Element("P", "data-i18n" :> K_gone, T_Baked),
       Element("SPAN", "data-i18n" :> Dotted(<<K_hero, K_title, K_length>>), T_Baked),
       Element("P", "data-i18n" :> K_note, T_Baked),
       Element("TEXTAREA", "data-i18n" :> Dotted(<<K_form, K_msg>>) @@ "placeholder" :> T_Baked, <<>>),
       Element("IMG", "data-i18n" :> K_cta, <<>>) >>

Inputs == {i \in 1..Len(PageElements) : PageElements[i].tag \in {"INPUT", "TEXTAREA"}}

Meta(key, content) == [tag |-> "meta", key |-> key, hreflang |-> <<>>, content |-> content]
Link(rel, hreflang, href) == [tag |-> "link", key |-> rel, hreflang |-> hreflang, content |-> href]

\* `${baseURL}?lang=${lang}`
LangURL(lang) == baseURL \o <<"?">> \o K_lang \o <<"=">> \o lang

HeadFull ==
    << Meta("description", T_Baked), Meta("og:title", T_Baked),
       Meta("og:description", T_Baked), Meta("twitter:description", T_Baked),
       Meta("og:url", baseURL), Meta("og:locale", LocaleEN),
       Link("alternate", FR, LangURL(FR)), Link("canonical", <<>>, T_Baked) >>
HeadBare == << >>
Heads == {HeadFull, HeadBare}

Document(head) ==
    [title |-> T_Baked, lang |-> EN, elems |-> PageElements, head |-> head,
     nav |-> FALSE, ham |-> FALSE, aria |-> "false", selector |-> EN]

(***************************************************************************)
(* DOM operations.                                                          *)
(***************************************************************************)
hasAttribute(el, a) == a \in DOMAIN el.attrs
getAttribute(el, a) == el.attrs[a]
setAttribute(el, a, v) == [el EXCEPT !.attrs = (a :> v) @@ @]

\* document.querySelector for a head node: the first match in document order.
Matches(head, tag, key) == {i \in 1..Len(head) : head[i].tag = tag /\ head[i].key = key}
First(head, tag, key) == CHOOSE i \in Matches(head, tag, key) : \A j \in Matches(head, tag, key) : i <= j

\* const m = document.querySelector(...); if (m) m.setAttribute('content', c)
setContentIfPresent(head, tag, key, content) ==
    IF Matches(head, tag, key) = {} THEN head
    ELSE [head EXCEPT ![First(head, tag, key)].content = content]

\* Assigning languageSelector.value: a value that is no option selects nothing.
Options == {EN, FR}
selectValue(d, v) == [d EXCEPT !.selector = IF v \in Options THEN v ELSE <<>>]

IsHreflang(node) == node.tag = "link" /\ node.key = "alternate"

(***************************************************************************)
(* Main page: src/unnamed/part_000 lines 222-478.                           *)
(***************************************************************************)
\* The callback without its `value !== undefined && value !== null` guard:
\* an absent value is written like any other.
translateElement_Unguarded(el, value) ==
    IF el.tag = "INPUT" \/ el.tag = "TEXTAREA"
    THEN [setAttribute(el, "placeholder", JSString(value))
            EXCEPT !.value = IF el.value = <<>> THEN JSString(value) ELSE @]
    ELSE IF el.tag = "IMG" /\ hasAttribute(el, "alt")
         THEN setAttribute(el, "alt", JSString(value))
         ELSE IF hasAttribute(el, "aria-label")
              THEN [setAttribute(el, "aria-label", JSString(value))
                      EXCEPT !.text = JSString(value)]
              ELSE [el EXCEPT !.text = JSString(value)]

\* The forEach callback of updateContent for one element and its value.
translateElement(el, value) ==
    IF value # Undefined /\ value # Null
    THEN IF el.tag = "INPUT" \/ el.tag = "TEXTAREA"
         THEN [setAttribute(el, "placeholder", JSString(value))
                 EXCEPT !.value = IF el.value = <<>> THEN JSString(value) ELSE @]
         ELSE IF el.tag = "IMG" /\ hasAttribute(el, "alt")
              THEN setAttribute(el, "alt", JSString(value))
              ELSE IF hasAttribute(el, "aria-label")
                   THEN [setAttribute(el, "aria-label", JSString(value))
                           EXCEPT !.text = JSString(value)]
                   ELSE [el EXCEPT !.text = JSString(value)]
    ELSE el

closeMobileMenu(d) == [d EXCEPT !.nav = FALSE, !.ham = FALSE, !.aria = "false"]

updateMetaTags(d, bundles, lang) ==
    LET translations == Get(bundles, lang)
        title == getNestedValue(translations, Dotted(<<K_meta, K_title>>))
        description == getNestedValue(translations, Dotted(<<K_meta, K_description>>))
        d1 == IF Truthy(title) THEN [d EXCEPT !.title = JSString(title)] ELSE d
        h1 == setContentIfPresent(d1.head, "meta", "description", JSString(description))
        h2 == setContentIfPresent(h1, "meta", "og:description", JSString(description))
        h3 == setContentIfPresent(h2, "meta", "twitter:description", JSString(description))
    IN  IF ~Truthy(translations) THEN d
        ELSE IF Truthy(description) THEN [d1 EXCEPT !.head = h3] ELSE d1

\* updateHreflangTags without the removal of the existing links.
updateHreflangTags_Accumulating(head, currentLang, base) ==
    head \o << Link("alternate", EN, base),
               Link("alternate", FR, base \o <<"?">> \o K_lang \o <<"=">> \o FR),
               Link("alternate", XDefault, base) >>

updateHreflangTags(head, currentLang, base) ==
    SelectSeq(head, LAMBDA node : ~IsHreflang(node))
      \o << Link("alternate", EN, base),
            Link("alternate", FR, base \o <<"?">> \o K_lang \o <<"=">> \o FR),
            Link("alternate", XDefault, base) >>

updateCanonicalAndHreflang(d, lang) ==
    LET h0 == IF Matches(d.head, "link", "canonical") = {}
              THEN Append(d.head, Link("canonical", <<>>, <<>>))
              ELSE d.head
        h1 == [h0 EXCEPT ![First(h0, "link", "canonical")].content = baseURL]
    IN  [d EXCEPT !.head = updateHreflangTags(h1, lang, baseURL)]

\* updateSocialMetaTags writing a path segment instead of the query parameter.
updateSocialMetaTags_PathScheme(d, lang) ==
    LET ogUrl == IF lang = EN THEN baseURL ELSE baseURL \o <<"/">> \o lang
        h1 == setContentIfPresent(d.head, "meta", "og:url", ogUrl)
        h2 == setContentIfPresent(h1, "meta", "og:locale", IF lang = EN THEN LocaleEN ELSE LocaleFR)
    IN  [d EXCEPT !.head = h2]

updateSocialMetaTags(d, lang) ==
    LET ogUrl == IF lang = EN THEN baseURL ELSE LangURL(lang)
        h1 == setContentIfPresent(d.head, "meta", "og:url", ogUrl)
        h2 == setContentIfPresent(h1, "meta", "og:locale", IF lang = EN THEN LocaleEN ELSE LocaleFR)
    IN  [d EXCEPT !.head = h2]

\* updateContent closing the menu whatever isInitialLoad says.
updateContent_AlwaysCloses(d, bundles, lang, initialLoad) ==
    LET translations == Get(bundles, lang)
        d1 == [d EXCEPT !.elems =
                 [i \in 1..Len(d.elems) |->
                    translateElement(d.elems[i],
                        getNestedValue(translations, getAttribute(d.elems[i], "data-i18n")))],
               !.lang = lang]
        d2 == updateSocialMetaTags(updateCanonicalAndHreflang(updateMetaTags(d1, bundles, lang), lang), lang)
    IN  IF ~Truthy(translations) THEN d
        ELSE closeMobileMenu(d2)

updateContent(d, bundles, lang, initialLoad) ==
    LET translations == Get(bundles, lang)
        d1 == [d EXCEPT !.elems =
                 [i \in 1..Len(d.elems) |->
                    translateElement(d.elems[i],
                        getNestedValue(translations, getAttribute(d.elems[i], "data-i18n")))],
               !.lang = lang]
        d2 == updateSocialMetaTags(updateCanonicalAndHreflang(updateMetaTags(d1, bundles, lang), lang), lang)
    IN  IF ~Truthy(translations) THEN d
        ELSE IF ~initialLoad THEN closeMobileMenu(d2) ELSE d2

\* Earlier copy of the main page (src/unnamed/part_002): the element callback
\* is the same, updateSocialMetaTags runs inside the forEach, the menu is
\* never closed, and updateHreflangTags appends a second x-default link.
updateHreflangTagsV1(head, currentLang, base) ==
    SelectSeq(head, LAMBDA node : ~IsHreflang(node))
      \o << Link("alternate", EN, base),
            Link("alternate", FR, base \o <<"?">> \o K_lang \o <<"=">> \o FR),
            Link("alternate", XDefault, base),
            Link("alternate", XDefault,
                 IF currentLang = EN THEN base
                 ELSE base \o <<"?">> \o K_lang \o <<"=">> \o currentLang) >>

updateCanonicalAndHreflangV1(d, lang) ==
    LET h0 == IF Matches(d.head, "link", "canonical") = {}
              THEN Append(d.head, Link("canonical", <<>>, <<>>))
              ELSE d.head
        h1 == [h0 EXCEPT ![First(h0, "link", "canonical")].content = baseURL]
    IN  [d EXCEPT !.head = updateHreflangTagsV1(h1, lang, baseURL)]

updateContentV1(d, bundles, lang) ==
    LET translations == Get(bundles, lang)
        d1 == [d EXCEPT !.elems =
                 [i \in 1..Len(d.elems) |->
                    translateElement(d.elems[i],
                        getNestedValue(translations, getAttribute(d.elems[i], "data-i18n")))]]
        d2 == IF Len(d.elems) > 0 THEN updateSocialMetaTags(d1, lang) ELSE d1
        d3 == [d2 EXCEPT !.lang = lang]
    IN  IF ~Truthy(translations) THEN d
        ELSE updateCanonicalAndHreflangV1(updateMetaTags(d3, bundles, lang), lang)

(***************************************************************************)
(* script.js lines 130-232.                                                 *)
(***************************************************************************)
\* The forEach callback of updateContent for one element and its value.
translateElementScript(el, value) ==
    IF value # Undefined /\ value # Null
    THEN IF el.tag = "INPUT" \/ el.tag = "TEXTAREA"
         THEN [setAttribute(el, "placeholder", JSString(value))
                 EXCEPT !.value = IF el.value = <<>> THEN JSString(value) ELSE @]
         ELSE IF el.tag = "IMG" /\ hasAttribute(el, "alt")
              THEN setAttribute(el, "alt", JSString(value))
              ELSE IF hasAttribute(el, "aria-label")
                   THEN setAttribute(el, "aria-label", JSString(value))
                   ELSE [el EXCEPT !.text = JSString(value)]
    ELSE el

\* updateContent(translations); tr is an object (a bundle or {}), language
\* is the variable currentLanguage at the time of the call.
updateContentScript(d, tr, language) ==
    LET meta == Get(tr, K_meta)
        title == JSString(Get(meta, K_title))
        description == JSString(Get(meta, K_description))
        h1 == setContentIfPresent(d.head, "meta", "description", description)
        h2 == setContentIfPresent(h1, "meta", "og:title", title)
        h3 == setContentIfPresent(h2, "meta", "og:description", description)
        elems == [i \in 1..Len(d.elems) |->
                    translateElementScript(d.elems[i],
                        getNestedValueScript(tr, getAttribute(d.elems[i], "data-i18n")))]
    IN  IF ~Truthy(meta) THEN d
        ELSE [selectValue(d, language) EXCEPT
                !.title = title, !.head = h3, !.elems = elems, !.lang = language]

\* loadTranslations(lang) before its fetch: `if (translations[lang]) return
\* translations[lang];` answers from the cache.
isCached(cache, lang) == Truthy(Get(cache, lang))

\* loadTranslations(lang) after its fetch: the payload replaces the cache and
\* `translations[lang] || {}` is returned; the catch block returns {} and
\* leaves the cache alone.
loadTranslations(cache, payload, lang, ok) ==
    IF ok
    THEN [cache |-> payload,
          result |-> IF Truthy(Get(payload, lang)) THEN Get(payload, lang) ELSE EmptyObject]
    ELSE [cache |-> cache, result |-> EmptyObject]

(***************************************************************************)
(* Technical page: src/unnamed/part_000 lines 40-220.  Its loader, resolver *)
(* and element callback are those of script.js; updateContent reads the     *)
(* title and the description under `technical`, and the change listener     *)
(* closes the menu on a narrow viewport.                                    *)
(***************************************************************************)
\* The widest viewport the change listener treats as mobile, and the
\* narrowest one it does not.
MobileWidth == 768
DesktopWidth == MobileWidth + 1

\* updateContent(translations) of the technical page: the document as far as
\* it got, and whether translations.technical.meta threw a TypeError.
updateContentTech(d, tr, language) ==
    LET technical == Get(tr, K_technical)
        meta == Get(technical, K_meta)
        title == JSString(Get(meta, K_title))
        description == JSString(Get(meta, K_description))
        h1 == setContentIfPresent(d.head, "meta", "description", description)
        h2 == setContentIfPresent(h1, "meta", "og:title", title)
        h3 == setContentIfPresent(h2, "meta", "og:description", description)
        elems == [i \in 1..Len(d.elems) |->
                    translateElementScript(d.elems[i],
                        getNestedValueScript(tr, getAttribute(d.elems[i], "data-i18n")))]
    IN  IF ~Truthy(Get(tr, K_meta)) THEN [d |-> d, threw |-> FALSE]
        ELSE IF technical \in {Undefined, Null} \/ meta \in {Undefined, Null}
             THEN [d |-> d, threw |-> TRUE]
             ELSE [d |-> [selectValue(d, language) EXCEPT
                            !.title = title, !.head = h3, !.elems = elems, !.lang = language],
                   threw |-> FALSE]

\* The end of the technical page's change listener:
\*   if (window.innerWidth <= 768 && navMenu?.classList.contains('active')) closeMobileMenu();
closeAfterChange(d, width) ==
    IF width <= MobileWidth /\ d.nav THEN closeMobileMenu(d) ELSE d

(***************************************************************************)
(* Legacy page: src/unnamed/part_003.                                       *)
(***************************************************************************)
\* loadTranslations(lang) of the legacy page after its fetch: the entry of the
\* payload, whatever it is, or {} from the catch.
loadTranslationsLegacy(payload, lang, ok) ==
    IF ok THEN Get(payload, lang) ELSE EmptyObject

translateElementLegacy(el, value) ==
    IF value # Null
    THEN IF el.tag = "INPUT" \/ el.tag = "TEXTAREA"
         THEN setAttribute(el, "placeholder", JSString(value))
         ELSE [el EXCEPT !.text = JSString(value)]
    ELSE el

\* updateContent(translations) of the legacy page.  It dereferences without
\* guards, so it can throw a TypeError part of the way: the result is the
\* document as far as it got and whether it threw.
updateContentLegacy(d, tr, language) ==
    LET meta == Get(tr, K_meta)
        d1 == [d EXCEPT !.title = JSString(Get(meta, K_title))]
        d2 == [d1 EXCEPT !.head = setContentIfPresent(d1.head, "meta", "description",
                                                      JSString(Get(meta, K_description)))]
        elems == [i \in 1..Len(d.elems) |->
                    translateElementLegacy(d.elems[i],
                        inlineKeyWalk(tr, getAttribute(d.elems[i], "data-i18n")))]
    IN  IF tr = Undefined \/ tr = Null THEN [d |-> d, threw |-> TRUE]
        ELSE IF meta = Undefined \/ meta = Null THEN [d |-> d, threw |-> TRUE]
        ELSE IF Matches(d.head, "meta", "description") = {} THEN [d |-> d1, threw |-> TRUE]
        ELSE [d |-> [selectValue(d2, language) EXCEPT !.elems = elems, !.lang = language],
              threw |-> FALSE]

(***************************************************************************)
(* URL search parameters and local storage.                                *)
(***************************************************************************)
RECURSIVE Join(_, _)
Join(segs, sep) ==
    IF Len(segs) = 0 THEN <<>>
    ELSE IF Len(segs) = 1 THEN segs[1]
    ELSE segs[1] \o sep \o Join(Tail(segs), sep)

\* new URLSearchParams(window.location.search): the name/value pairs in order.
URLSearchParams(query) ==
    LET q == IF query # <<>> /\ Head(query) = "?" THEN Tail(query) ELSE query
        parts == SelectSeq(Split(q, <<"&">>), LAMBDA part : part # <<>>)
    IN  [i \in 1..Len(parts) |->
           LET segs == Split(parts[i], <<"=">>)
           IN  <<segs[1], Join(Tail(segs), <<"=">>)>>]

\* URLSearchParams.get: the first value of the name, or null.
paramsGet(params, name) ==
    IF \E i \in 1..Len(params) : params[i][1] = name
    THEN Str(params[CHOOSE i \in 1..Len(params) :
                      /\ params[i][1] = name
                      /\ \A j \in 1..(i - 1) : params[j][1] # name][2])
    ELSE Null

paramsDelete(params, name) == SelectSeq(params, LAMBDA pair : pair[1] # name)

\* URLSearchParams.set: overwrite the first pair of the name, drop the others;
\* append when the name is absent.
paramsSet(params, name, value) ==
    IF \E i \in 1..Len(params) : params[i][1] = name
    THEN LET first == CHOOSE i \in 1..Len(params) :
                        /\ params[i][1] = name
                        /\ \A j \in 1..(i - 1) : params[j][1] # name
             before == SubSeq(params, 1, first - 1)
             after == SubSeq(params, first + 1, Len(params))
         IN  before \o << <<name, value>> >> \o paramsDelete(after, name)
    ELSE Append(params, <<name, value>>)

\* The search part of url.toString().
paramsToSearch(params) ==
    IF Len(params) = 0 THEN <<>>
    ELSE <<"?">> \o Join([i \in 1..Len(params) |-> params[i][1] \o <<"=">> \o params[i][2]], <<"&">>)

getItem(store, key) == IF key \in DOMAIN store THEN Str(store[key]) ELSE Null
setItem(store, key, value) == (key :> value) @@ store

\* initializeLanguage with the stored preference tested before the URL.
initializeLanguage_StoredFirst(query, store, navigatorLanguage) ==
    LET urlLang == paramsGet(URLSearchParams(query), K_lang)
        storedLang == getItem(store, "selectedLanguage")
        browserLang == Split(navigatorLanguage, Dash)[1]
    IN  IF Truthy(storedLang) THEN storedLang.s
        ELSE IF Truthy(urlLang) /\ (urlLang = Str(EN) \/ urlLang = Str(FR)) THEN urlLang.s
        ELSE IF browserLang = FR THEN FR
        ELSE EN

\* initializeLanguage of the main page (identical in part_000 and part_002).
initializeLanguage(query, store, navigatorLanguage) ==
    LET urlLang == paramsGet(URLSearchParams(query), K_lang)
        storedLang == getItem(store, "selectedLanguage")
        browserLang == Split(navigatorLanguage, Dash)[1]
    IN  IF Truthy(urlLang) /\ (urlLang = Str(EN) \/ urlLang = Str(FR)) THEN urlLang.s
        ELSE IF Truthy(storedLang) THEN storedLang.s
        ELSE IF browserLang = FR THEN FR
        ELSE EN

\* updateURLForLanguage leaving the URL alone for English instead of deleting
\* the lang parameter.
updateURLForLanguage_KeepsParameter(query, lang) ==
    IF lang = EN
    THEN query
    ELSE paramsToSearch(paramsSet(URLSearchParams(query), K_lang, lang))

updateURLForLanguage(query, lang) ==
    IF lang = EN
    THEN paramsToSearch(paramsDelete(URLSearchParams(query), K_lang))
    ELSE paramsToSearch(paramsSet(URLSearchParams(query), K_lang, lang))

(***************************************************************************)
(* State.                                                                   *)
(***************************************************************************)
VARIABLES
    page,             \* the script variant loaded in this page
    search,           \* window.location.search
    storage,          \* localStorage
    navLang,          \* navigator.language
    body,             \* the payload the server holds for i18n.json
    started,          \* the script has run
    pending,          \* requests for i18n.json in flight
    i18n,             \* main page: const i18n
    translations,     \* script.js: let translations (the cache)
    currentLanguage,  \* script.js, legacy page: let currentLanguage
    isInitialLoad,    \* main page: let isInitialLoad
    listening,        \* the selector's change listener is registered
    doc,              \* the document
    uncaught,         \* an error or promise rejection nothing handled
    events,           \* user events so far
    innerWidth,       \* window.innerWidth
    network,          \* requests for i18n.json issued, delivered and failed so far
    last,             \* the last synchronization: kind, language, bundle, document before
    form,             \* the contact form: fields, display, button, requests
    modal             \* the technical modal and the scrolling of the body

vars == <<page, search, storage, navLang, body, started, pending, i18n, translations,
          currentLanguage, isInitialLoad, listening, doc, uncaught, events, innerWidth,
          network, last, form, modal>>

Pages == {"main", "main_v1", "script", "legacy", "tech"}
MainPages == {"main", "main_v1"}
\* The pages whose loader is that of script.js; "contact" is the page
\* running src/unnamed/part_001.
ScriptPages == {"script", "tech", "contact"}

Searches == {<<>>,
             <<"?">> \o K_lang \o <<"=">> \o FR,
             <<"?">> \o K_lang \o <<"=">> \o EN,
             <<"?">> \o K_utm \o <<"=">> \o <<"x">> \o <<"&">> \o K_lang \o <<"=">> \o DE}
StoredLangs == {EN, FR, DE}
Storages == {<<>>} \cup {("selectedLanguage" :> v @@ "preferredLanguage" :> v) : v \in StoredLangs}
NavigatorLanguages == {EN \o Dash \o <<"U", "S">>, FR, FR \o Dash \o <<"C", "A">>}
\* The payload on the server and the head of the served page.
Served == {<<PayloadFull, HeadFull>>, <<PayloadFull, HeadBare>>,
           <<PayloadOnlyEN, HeadFull>>, <<PayloadOnlyEN, HeadBare>>,
           <<PayloadScenario, HeadFull>>}

\* Only the main pages read the URL; the other pages are opened without a query.
SearchesOf(p) == IF p \in MainPages THEN Searches ELSE {<<>>}
\* Only the main pages split the browser language at its dash and generate
\* head links; the other pages are opened with fewer variations of both.
NavigatorLanguagesOf(p) ==
    IF p \in MainPages THEN NavigatorLanguages ELSE {EN \o Dash \o <<"U", "S">>, FR}
ServedOf(p) ==
    IF p \in MainPages THEN Served
    ELSE {<<PayloadFull, HeadFull>>, <<PayloadFull, HeadBare>>, <<PayloadOnlyEN, HeadFull>>}

\* `loaded` says whether the bundle source delivered a payload to the
\* synchronization (from a fetch or from the cache a fetch filled).
NoSync == [op |-> "none", lang |-> <<>>, tr |-> Undefined, pre |-> Document(HeadBare),
           loaded |-> FALSE]
Sync(op, lang, tr, pre, loaded) ==
    [op |-> op, lang |-> lang, tr |-> tr, pre |-> pre, loaded |-> loaded]

NoTraffic == [issued |-> 0, delivered |-> 0, failed |-> 0]
Issue(net, k) == [net EXCEPT !.issued = @ + k]
Settle(net, ok) ==
    IF ok THEN [net EXCEPT !.delivered = @ + 1] ELSE [net EXCEPT !.failed = @ + 1]

(***************************************************************************)
(* The contact form: src/unnamed/part_001 lines 249-349 (validation and a   *)
(* POST), script.js lines 43-48 and 235-295 (two submit listeners, a        *)
(* simulated send), src/unnamed/part_000 lines 533-569 and 624-641 (no      *)
(* validation, a simulated send).  The fields #name and #message are the    *)
(* INPUT and the TEXTAREA of PageElements; #email carries no key.           *)
(***************************************************************************)
NameField == 2
MessageField == 8
T_Blank == <<" ">>
T_Mail == <<"a", "@", "b", ".", "c">>
T_NoMail == <<"a", "b">>
Whitespace == {" "}

\* String.prototype.trim
RECURSIVE trimStart(_)
trimStart(chars) ==
    IF chars # <<>> /\ Head(chars) \in Whitespace THEN trimStart(Tail(chars)) ELSE chars
RECURSIVE trimEnd(_)
trimEnd(chars) ==
    IF chars # <<>> /\ chars[Len(chars)] \in Whitespace
    THEN trimEnd(SubSeq(chars, 1, Len(chars) - 1))
    ELSE chars
trim(chars) == trimEnd(trimStart(chars))

\* /^[^\s@]+@[^\s@]+\.[^\s@]+$/.test(email)
isValidEmail(email) ==
    \E at \in 1..Len(email), dot \in 1..Len(email) :
        /\ email[at] = "@"
        /\ email[dot] = "."
        /\ 1 < at /\ at + 1 < dot /\ dot < Len(email)
        /\ \A k \in 1..Len(email) : email[k] \notin Whitespace /\ (k # at => email[k] # "@")

\* The form as the page is served: displayed, empty, the success message
\* hidden.  `typed` records the fields the user has typed into, `sent` the
\* requests sent, `waiting` the send (request or timer) not yet finished,
\* `answered` whether a response with an ok status has been received.
FormInit ==
    [email |-> <<>>, shown |-> TRUE, success |-> FALSE, loading |-> FALSE,
     disabled |-> FALSE, errors |-> {}, waiting |-> FALSE, sent |-> 0,
     answered |-> FALSE, rejected |-> FALSE, typed |-> {}]

\* form.reset(): every field returns to its default value, the empty string.
reset(d, f) ==
    [d |-> [d EXCEPT !.elems = [i \in 1..Len(d.elems) |->
                                   IF i \in Inputs THEN [d.elems[i] EXCEPT !.value = <<>>]
                                   ELSE d.elems[i]]],
     f |-> [f EXCEPT !.email = <<>>]]

\* The validation of part_001: name, email and message.
validateContact(d, f) ==
    (IF trim(d.elems[NameField].value) = <<>> THEN {"Name is required"} ELSE {})
    \cup (IF trim(f.email) = <<>> THEN {"Email is required"}
          ELSE IF ~isValidEmail(f.email) THEN {"Please enter a valid email address"}
          ELSE {})
    \cup (IF trim(d.elems[MessageField].value) = <<>> THEN {"Message is required"} ELSE {})

\* The validation of script.js: name and email.
validateScript(d, f) ==
    (IF trim(d.elems[NameField].value) = <<>> THEN {"Name is required"} ELSE {})
    \cup (IF trim(f.email) = <<>> THEN {"Email is required"}
          ELSE IF ~isValidEmail(f.email) THEN {"Please enter a valid email address"}
          ELSE {})

\* The submit listener of part_001 up to its await: the errors are shown, or
\* the loading state is entered and the POST is sent.
submitContact(d, f) ==
    LET errors == validateContact(d, f)
    IN  IF errors = {}
        THEN [d |-> d,
              f |-> [f EXCEPT !.errors = {}, !.loading = TRUE, !.disabled = TRUE,
                              !.waiting = TRUE, !.sent = @ + 1, !.rejected = FALSE]]
        ELSE [d |-> d, f |-> [f EXCEPT !.errors = errors, !.rejected = TRUE]]

\* showSuccessMessage and resetForm of part_001.
showSuccessMessage(f) == [f EXCEPT !.shown = FALSE, !.success = TRUE]
resetForm(d, f) ==
    reset(d, [f EXCEPT !.shown = TRUE, !.success = FALSE])

\* The submit listener of part_001 after its await: try, catch, finally.
Outcomes == {"ok", "not ok", "throws"}
afterPost(f, outcome) ==
    LET shown == IF outcome = "ok" THEN [showSuccessMessage(f) EXCEPT !.answered = TRUE] ELSE f
    IN  [shown EXCEPT !.loading = FALSE, !.disabled = FALSE, !.waiting = FALSE]

\* Both submit listeners of script.js, in the order of their registration:
\* the one at top level alerts and resets the form, then the one registered
\* on DOMContentLoaded validates what is left.
submitScript(d, f) ==
    LET cleared == reset(d, f)
        errors == validateScript(cleared.d, cleared.f)
    IN  IF errors = {}
        THEN [d |-> cleared.d,
              f |-> [cleared.f EXCEPT !.errors = {}, !.disabled = TRUE, !.loading = TRUE,
                                      !.waiting = TRUE, !.rejected = FALSE]]
        ELSE [d |-> cleared.d, f |-> [cleared.f EXCEPT !.errors = errors, !.rejected = TRUE]]

\* script.js after its simulated send: alert, reset, finally.
afterSendScript(d, f) ==
    reset(d, [f EXCEPT !.loading = FALSE, !.disabled = FALSE, !.waiting = FALSE])

\* The submit listener of the main page: the loading state and a timer.
submitMain(d, f) ==
    [d |-> d, f |-> [f EXCEPT !.loading = TRUE, !.disabled = TRUE, !.waiting = TRUE,
                              !.rejected = FALSE]]

\* The timer of the main page fires.
afterTimerMain(f) ==
    [f EXCEPT !.shown = FALSE, !.success = TRUE, !.loading = FALSE, !.disabled = FALSE,
              !.waiting = FALSE]

\* window.resetForm of the main page.
resetFormMain(d, f) ==
    LET cleared == reset(d, f)
    IN  [d |-> cleared.d, f |-> [cleared.f EXCEPT !.shown = TRUE, !.success = FALSE]]

(***************************************************************************)
(* The modal of the technical page: src/unnamed/part_000 lines 2-38.        *)
(***************************************************************************)
\* `closedBy` records which listener closed the modal last.
ModalInit == [active |-> FALSE, overflow |-> "", closedBy |-> "none"]

openTechModal(m) == [m EXCEPT !.active = TRUE, !.overflow = "hidden"]

\* closeTechModal leaving the scrolling of the body blocked.
closeTechModal_KeepsOverflow(m) == [m EXCEPT !.active = FALSE]

closeTechModal(m) == [m EXCEPT !.active = FALSE, !.overflow = ""]

Init ==
    /\ page \in Pages
    /\ \/ /\ page # "tech"
          /\ search \in SearchesOf(page)
          /\ storage \in Storages
          /\ navLang \in NavigatorLanguagesOf(page)
          /\ body = PayloadFull
          /\ doc = Document(HeadFull)
          /\ innerWidth = DesktopWidth
       \/ /\ page # "tech"
          /\ search \in SearchesOf(page) \cap {<<>>, <<"?">> \o K_lang \o <<"=">> \o FR}
          /\ storage = <<>>
          /\ navLang \in NavigatorLanguagesOf(page)
          /\ \E served \in ServedOf(page) : body = served[1] /\ doc = Document(served[2])
          /\ innerWidth = DesktopWidth
       \/ /\ page = "tech"
          /\ search = <<>>
          /\ storage = <<>>
          /\ navLang = EN \o Dash \o <<"U", "S">>
          /\ body \in {PayloadFull, PayloadScenario}
          /\ doc = Document(HeadFull)
          /\ innerWidth \in {MobileWidth, DesktopWidth}
    /\ started = FALSE
    /\ pending = <<>>
    /\ i18n = Obj(EN :> EmptyObject @@ FR :> EmptyObject)
    /\ translations = EmptyObject
    /\ currentLanguage = EN
    /\ isInitialLoad = TRUE
    /\ listening = FALSE
    /\ uncaught = FALSE
    /\ events = 0
    /\ network = NoTraffic
    /\ last = NoSync
    /\ form = FormInit
    /\ modal = ModalInit

Request(lang, then) == [lang |-> lang, then |-> then]

\* The synchronization of a main page, by variant.
updateContentOf(p, d, bundles, lang, initialLoad) ==
    IF p = "main" THEN updateContent(d, bundles, lang, initialLoad)
    ELSE updateContentV1(d, bundles, lang)

\* The script runs: the main page issues fetch('i18n.json').
BootMain ==
    /\ page \in MainPages
    /\ ~started
    /\ started' = TRUE
    /\ pending' = <<Request(<<>>, "chain")>>
    /\ network' = Issue(network, 1)
    /\ UNCHANGED <<form, modal, page, search, storage, navLang, body, i18n, translations, currentLanguage,
                   isInitialLoad, listening, doc, uncaught, events, innerWidth, last>>

\* The startup handler persisting the language it detected.
FetchResolvedMain_Persisting ==
    /\ page \in MainPages
    /\ pending # <<>>
    /\ LET bundles == Obj(EN :> Get(body, EN) @@ FR :> Get(body, FR))
           currentLang == initializeLanguage(search, storage, navLang)
       IN  /\ i18n' = bundles
           /\ doc' = selectValue(updateContentOf(page, doc, bundles, currentLang, TRUE), currentLang)
           /\ last' = Sync("initial", currentLang, Get(bundles, currentLang), doc, TRUE)
           /\ storage' = setItem(storage, "selectedLanguage", currentLang)
    /\ pending' = <<>>
    /\ network' = Settle(network, TRUE)
    /\ listening' = TRUE
    /\ isInitialLoad' = FALSE
    /\ UNCHANGED <<form, modal, page, search, navLang, body, started, translations,
                   currentLanguage, uncaught, events, innerWidth>>

\* fetch(...).then(ok check, json).then(startup): the request succeeded.
FetchResolvedMain ==
    /\ page \in MainPages
    /\ pending # <<>>
    /\ LET bundles == Obj(EN :> Get(body, EN) @@ FR :> Get(body, FR))
           currentLang == initializeLanguage(search, storage, navLang)
       IN  /\ i18n' = bundles
           /\ doc' = selectValue(updateContentOf(page, doc, bundles, currentLang, TRUE), currentLang)
           /\ last' = Sync("initial", currentLang, Get(bundles, currentLang), doc, TRUE)
    /\ pending' = <<>>
    /\ network' = Settle(network, TRUE)
    /\ listening' = TRUE
    /\ isInitialLoad' = FALSE
    /\ UNCHANGED <<form, modal, page, search, storage, navLang, body, started, translations,
                   currentLanguage, uncaught, events, innerWidth>>

\* fetch(...).catch: the request was rejected, not ok, or not JSON.
FetchRejectedMain ==
    /\ page \in MainPages
    /\ pending # <<>>
    /\ doc' = updateContentOf(page, doc, i18n, EN, TRUE)
    /\ last' = Sync("fallback", EN, Get(i18n, EN), doc, FALSE)
    /\ pending' = <<>>
    /\ network' = Settle(network, FALSE)
    /\ isInitialLoad' = FALSE
    /\ UNCHANGED <<form, modal, page, search, storage, navLang, body, started, i18n, translations,
                   currentLanguage, listening, uncaught, events, innerWidth>>

\* The change listener of the language selector (user-initiated).
ChangeLanguageMain(newLang) ==
    /\ page \in MainPages
    /\ listening
    /\ events < MaxEvents
    /\ newLang # doc.selector
    /\ storage' = setItem(storage, "selectedLanguage", newLang)
    /\ doc' = updateContentOf(page, [doc EXCEPT !.selector = newLang], i18n, newLang, FALSE)
    /\ search' = updateURLForLanguage(search, newLang)
    /\ last' = Sync("change", newLang, Get(i18n, newLang), doc, TRUE)
    /\ events' = events + 1
    /\ UNCHANGED <<form, modal, page, navLang, body, started, pending, i18n, translations,
                   currentLanguage, isInitialLoad, listening, uncaught, innerWidth, network>>

\* A click listener of the hamburger that keeps aria-expanded in step
\* (part_000:47-52 and 577-584, script.js:75-80).
toggleMenu(d) ==
    [d EXCEPT !.aria = IF d.aria = "true" THEN "false" ELSE "true",
              !.nav = ~d.nav,
              !.ham = ~d.ham]

\* A click listener that toggles the two classes only (script.js:5-8,
\* part_003:8-11).
toggleClasses(d) == [d EXCEPT !.nav = ~d.nav, !.ham = ~d.ham]

\* All click listeners the page has registered on the hamburger, in the
\* order of their registration: script.js registers one at top level and a
\* second one on DOMContentLoaded.
hamburgerListeners(p, d) ==
    IF p = "script" THEN toggleMenu(toggleClasses(d))
    ELSE IF p = "legacy" THEN toggleClasses(d)
    ELSE toggleMenu(d)

\* The user clicks the hamburger.
HamburgerClick ==
    /\ started
    /\ events < MaxEvents
    /\ doc' = hamburgerListeners(page, doc)
    /\ last' = NoSync
    /\ events' = events + 1
    /\ UNCHANGED <<form, modal, page, search, storage, navLang, body, started, pending, i18n, translations,
                   currentLanguage, isInitialLoad, listening, uncaught, innerWidth, network>>

\* The user edits a form field.
UserTypes(i, text) ==
    /\ started
    /\ events < MaxEvents
    /\ doc.elems[i].value # text
    /\ doc' = [doc EXCEPT !.elems[i].value = text]
    /\ last' = NoSync
    /\ events' = events + 1
    /\ UNCHANGED <<form, modal, page, search, storage, navLang, body, started, pending, i18n, translations,
                   currentLanguage, isInitialLoad, listening, uncaught, innerWidth, network>>

\* initLanguage up to its first await: the language from storage or browser.
initLanguage(store, navigatorLanguage) ==
    LET userLang == IF StartsWith(navigatorLanguage, FR) THEN FR ELSE EN
        stored == getItem(store, "preferredLanguage")
    IN  IF Truthy(stored) THEN stored.s ELSE userLang

Remove(seq, k) == SubSeq(seq, 1, k - 1) \o SubSeq(seq, k + 1, Len(seq))

\* What the caller of loadTranslations does with the bundle it receives:
\* updateContent, and on the technical page the end of the change listener
\* (which an exception in updateContent skips).
afterLoad(p, d, tr, language, then, width) ==
    IF p = "script" THEN [d |-> updateContentScript(d, tr, language), threw |-> FALSE]
    ELSE LET out == IF p = "contact"
                    THEN [d |-> updateContentScript(d, tr, language), threw |-> FALSE]
                    ELSE updateContentTech(d, tr, language)
         IN  IF out.threw \/ then # "change" THEN out
             ELSE [d |-> closeAfterChange(out.d, width), threw |-> FALSE]

\* DOMContentLoaded of script.js and of the technical page: initLanguage() and
\* the preload of the other language each call loadTranslations on an empty
\* cache, so each fetches.
BootScript ==
    /\ page \in ScriptPages
    /\ ~started
    /\ started' = TRUE
    /\ listening' = TRUE
    /\ currentLanguage' = initLanguage(storage, navLang)
    /\ pending' = << Request(initLanguage(storage, navLang), "initial"),
                     Request(IF StartsWith(navLang, FR) THEN EN ELSE FR, "preload") >>
    /\ network' = Issue(network, 2)
    /\ UNCHANGED <<form, modal, page, search, storage, navLang, body, i18n, translations,
                   isInitialLoad, doc, uncaught, events, innerWidth, last>>

\* One pending loadTranslations(lang) resumes after its fetch; its caller
\* then runs updateContent (the preload has no caller waiting).  An exception
\* in the async caller is a promise rejection nothing handles.
FetchSettledScript(k, ok) ==
    /\ page \in ScriptPages
    /\ k \in 1..Len(pending)
    /\ LET req == pending[k]
           load == loadTranslations(translations, body, req.lang, ok)
           out == afterLoad(page, doc, load.result, currentLanguage, req.then, innerWidth)
       IN  /\ translations' = load.cache
           /\ IF req.then = "preload"
              THEN UNCHANGED <<doc, last, uncaught>>
              ELSE /\ doc' = out.d
                   /\ uncaught' = (uncaught \/ out.threw)
                   /\ last' = Sync(req.then, req.lang, load.result, doc, ok)
    /\ pending' = Remove(pending, k)
    /\ network' = Settle(network, ok)
    /\ UNCHANGED <<form, modal, page, search, storage, navLang, body, started, i18n, currentLanguage,
                   isInitialLoad, listening, events, innerWidth>>

\* The change listener of script.js and of the technical page: a cached
\* language is synchronized in the same turn, any other language waits for a
\* new fetch.
ChangeLanguageScript(newLang) ==
    /\ page \in ScriptPages
    /\ listening
    /\ events < MaxEvents
    /\ Len(pending) < MaxPending
    /\ newLang # doc.selector
    /\ currentLanguage' = newLang
    /\ storage' = setItem(storage, "preferredLanguage", newLang)
    /\ IF isCached(translations, newLang)
       THEN LET out == afterLoad(page, [doc EXCEPT !.selector = newLang],
                                 Get(translations, newLang), newLang, "change", innerWidth)
            IN  /\ doc' = out.d
                /\ uncaught' = (uncaught \/ out.threw)
                /\ last' = Sync("change", newLang, Get(translations, newLang), doc, TRUE)
                /\ UNCHANGED <<pending, network>>
       ELSE /\ doc' = [doc EXCEPT !.selector = newLang]
            /\ pending' = Append(pending, Request(newLang, "change"))
            /\ network' = Issue(network, 1)
            /\ last' = NoSync
            /\ UNCHANGED uncaught
    /\ events' = events + 1
    /\ UNCHANGED <<form, modal, page, search, navLang, body, started, i18n, translations,
                   isInitialLoad, listening, innerWidth>>

\* DOMContentLoaded of the legacy page: initLanguage() fetches.
BootLegacy ==
    /\ page = "legacy"
    /\ ~started
    /\ started' = TRUE
    /\ listening' = TRUE
    /\ currentLanguage' = initLanguage(storage, navLang)
    /\ pending' = << Request(initLanguage(storage, navLang), "initial") >>
    /\ network' = Issue(network, 1)
    /\ UNCHANGED <<form, modal, page, search, storage, navLang, body, i18n, translations,
                   isInitialLoad, doc, uncaught, events, innerWidth, last>>

\* One pending loadTranslations(lang) of the legacy page settles; then
\* updateContent, whose exception nothing handles.  A response that is not ok
\* is taken to carry an error page, on which response.json() rejects.
FetchSettledLegacy(k, ok) ==
    /\ page = "legacy"
    /\ k \in 1..Len(pending)
    /\ LET req == pending[k]
           result == loadTranslationsLegacy(body, req.lang, ok)
           out == updateContentLegacy(doc, result, currentLanguage)
       IN  /\ doc' = out.d
           /\ uncaught' = (uncaught \/ out.threw)
           /\ last' = Sync(req.then, req.lang, result, doc, ok)
    /\ pending' = Remove(pending, k)
    /\ network' = Settle(network, ok)
    /\ UNCHANGED <<form, modal, page, search, storage, navLang, body, started, i18n, translations,
                   currentLanguage, isInitialLoad, listening, events, innerWidth>>

\* The change listener of the legacy page: every change fetches again.
ChangeLanguageLegacy(newLang) ==
    /\ page = "legacy"
    /\ listening
    /\ events < MaxEvents
    /\ Len(pending) < MaxPending
    /\ newLang # doc.selector
    /\ currentLanguage' = newLang
    /\ storage' = setItem(storage, "preferredLanguage", newLang)
    /\ doc' = [doc EXCEPT !.selector = newLang]
    /\ pending' = Append(pending, Request(newLang, "change"))
    /\ network' = Issue(network, 1)
    /\ last' = NoSync
    /\ events' = events + 1
    /\ UNCHANGED <<form, modal, page, search, navLang, body, started, i18n, translations,
                   isInitialLoad, listening, uncaught, innerWidth>>

Next ==
    \/ BootMain
    \/ FetchResolvedMain
    \/ FetchRejectedMain
    \/ \E newLang \in Options : ChangeLanguageMain(newLang)
    \/ BootScript
    \/ \E k \in 1..MaxPending, ok \in BOOLEAN : FetchSettledScript(k, ok)
    \/ \E newLang \in Options : ChangeLanguageScript(newLang)
    \/ BootLegacy
    \/ \E k \in 1..MaxPending, ok \in BOOLEAN : FetchSettledLegacy(k, ok)
    \/ \E newLang \in Options : ChangeLanguageLegacy(newLang)
    \/ HamburgerClick
    \/ \E i \in Inputs, text \in {<<>>, T_Typed} : UserTypes(i, text)

Spec == Init /\ [][Next]_vars
(***************************************************************************)
(* Vocabulary of the properties.                                            *)
(***************************************************************************)
Absent == {Undefined, Null}
Supported == {EN, FR}

\* What a bundle stores at a path of segments: the value reached by walking
\* own properties of mappings, undefined when a segment is missing or the
\* value reached before the last segment is not a mapping.
RECURSIVE StoredAt(_, _)
StoredAt(value, segs) ==
    IF segs = <<>> THEN value
    ELSE IF value.t = "object" /\ Head(segs) \in DOMAIN value.o
         THEN StoredAt(value.o[Head(segs)], Tail(segs))
         ELSE Undefined

\* The resolver each page applies to a data-i18n key.
Resolve(p, bundle, key) ==
    IF p = "script" THEN getNestedValueScript(bundle, key)
    ELSE IF p = "legacy" THEN inlineKeyWalk(bundle, key)
    ELSE getNestedValue(bundle, key)

KeyOf(i) == getAttribute(PageElements[i], "data-i18n")
Synced == last.op # "none"
GuardedPages == {"main", "main_v1", "script"}

\* The synchronization recorded in `last` went past its early return.
SyncRan ==
    /\ Synced
    /\ IF page = "script" THEN Truthy(Get(last.tr, K_meta)) ELSE Truthy(last.tr)

URLSays(lang) == search = <<"?">> \o K_lang \o <<"=">> \o lang

\* The language the priority order of the startup inputs names.
C1_Expected ==
    IF URLSays(FR) THEN FR
    ELSE IF URLSays(EN) THEN EN
    ELSE IF "selectedLanguage" \in DOMAIN storage THEN storage["selectedLanguage"]
    ELSE IF navLang \in {FR, FR \o Dash \o <<"C", "A">>} THEN FR
    ELSE EN

(***************************************************************************)
(* C1.  initializeLanguage resolves the startup language by strict         *)
(* priority: a URL lang parameter equal to en or fr, else the stored        *)
(* preference, else fr for a French browser, else en.                       *)
(***************************************************************************)
C1_StartupPriority ==
    (page \in MainPages /\ last.op = "initial") => last.lang = C1_Expected

C1_Witness ==
    /\ page \in MainPages
    /\ last.op = "initial"
    /\ URLSays(FR)
    /\ "selectedLanguage" \in DOMAIN storage
    /\ storage["selectedLanguage"] = EN
    /\ navLang = EN \o Dash \o <<"U", "S">>
    /\ last.lang = FR
    /\ doc.lang = FR

(***************************************************************************)
(* C2.  Whatever the URL parameter, the stored preference and the browser   *)
(* language are, the language chosen at startup is en or fr.                *)
(***************************************************************************)
C2_StartupLanguageSupported ==
    (page \in GuardedPages /\ last.op = "initial") => last.lang \in Supported

(***************************************************************************)
(* C3.  Where a bundle stores a string (the empty string included) at the   *)
(* path of a dotted key, the page's key resolver returns that string.       *)
(***************************************************************************)
C3_ResolvesStoredString ==
    Synced =>
        \A i \in 1..Len(PageElements) :
            StoredAt(last.tr, Split(KeyOf(i), Dot)).t = "string"
                => Resolve(page, last.tr, KeyOf(i)) = StoredAt(last.tr, Split(KeyOf(i), Dot))

(***************************************************************************)
(* C4.  Where a segment of the key is missing, a value reached before the   *)
(* last segment is not a mapping, or the stored value is undefined or null, *)
(* getNestedValue returns absent.                                           *)
(***************************************************************************)
C4_AbsentWhenNotStored ==
    (Synced /\ page \in GuardedPages) =>
        \A i \in 1..Len(PageElements) :
            StoredAt(last.tr, Split(KeyOf(i), Dot)) \in Absent
                => Resolve(page, last.tr, KeyOf(i)) \in Absent

(***************************************************************************)
(* C5.  An element whose key does not resolve in the bundle of the          *)
(* synchronization keeps its text, value and attributes, and no error is    *)
(* raised.                                                                  *)
(***************************************************************************)
C5_UnresolvedUntouched ==
    (Synced /\ page \in GuardedPages) =>
        /\ ~uncaught
        /\ \A i \in 1..Len(PageElements) :
              Resolve(page, last.tr, KeyOf(i)) \in Absent
                  => doc.elems[i] = last.pre.elems[i]

C5_Witness ==
    /\ page = "main"
    /\ last.op = "change"
    /\ last.lang = FR
    /\ Truthy(last.tr)
    /\ Resolve(page, last.tr, KeyOf(5)) \in Absent
    /\ Resolve(page, last.tr, KeyOf(8)) \in Absent
    /\ doc.elems[1].text = T_Salut
    /\ last.pre.elems[1].text = T_Hi
    /\ doc.elems[5].text = T_Baked
    /\ doc.elems[8].value = T_Msg
    /\ doc.elems[8].attrs["placeholder"] = T_Msg

\* The element after its one target, chosen by kind, received the characters.
C6_Target(el, chars) ==
    IF el.tag \in {"INPUT", "TEXTAREA"}
    THEN [el EXCEPT !.attrs = ("placeholder" :> chars) @@ @,
                    !.value = IF @ = <<>> THEN chars ELSE @]
    ELSE IF el.tag = "IMG" /\ "alt" \in DOMAIN el.attrs
         THEN [el EXCEPT !.attrs = ("alt" :> chars) @@ @]
         ELSE IF "aria-label" \in DOMAIN el.attrs
              THEN [el EXCEPT !.attrs = ("aria-label" :> chars) @@ @]
              ELSE [el EXCEPT !.text = chars]

(***************************************************************************)
(* C6.  A resolved value is written to exactly one target by element kind:  *)
(* placeholder for INPUT/TEXTAREA (and value when the field is empty), alt  *)
(* for an IMG with alt, aria-label for any other element carrying one,      *)
(* text content for the rest.                                               *)
(***************************************************************************)
C6_OneTargetByKind ==
    (SyncRan /\ page \in GuardedPages) =>
        \A i \in 1..Len(PageElements) :
            Resolve(page, last.tr, KeyOf(i)) \notin Absent
                => doc.elems[i] = C6_Target(last.pre.elems[i],
                                            JSString(Resolve(page, last.tr, KeyOf(i))))

(***************************************************************************)
(* C7.  Running updateContent twice in succession for the same language     *)
(* leaves the document as the first run left it.                            *)
(***************************************************************************)
C7_Idempotent ==
    /\ page \in MainPages =>
          \A lang \in {EN, FR, DE}, initialLoad \in BOOLEAN :
              LET once == updateContentOf(page, doc, i18n, lang, initialLoad)
              IN  updateContentOf(page, once, i18n, lang, initialLoad) = once
    /\ page = "script" =>
          \A lang \in Supported :
              LET tr == IF Truthy(Get(translations, lang)) THEN Get(translations, lang)
                        ELSE EmptyObject
                  once == updateContentScript(doc, tr, lang)
              IN  updateContentScript(once, tr, lang) = once

C7_Witness ==
    /\ page = "main"
    /\ last.op = "change"
    /\ Truthy(last.tr)
    /\ doc.elems # last.pre.elems
    /\ doc.head # last.pre.head
    /\ updateContent(doc, i18n, last.lang, FALSE) = doc

ContentOf(head, key) == head[First(head, "meta", key)].content
HoldsIfPresent(head, key, chars) ==
    Matches(head, "meta", key) # {} => ContentOf(head, key) = chars

(***************************************************************************)
(* C8.  After a synchronization for a language whose bundle has meta.title  *)
(* and meta.description, the title, the description meta tag, og:title,     *)
(* og:description and twitter:description (each when present) hold that     *)
(* bundle's values, and the html lang attribute is the language.            *)
(***************************************************************************)
C8_MetadataSynchronized ==
    LET title == StoredAt(last.tr, <<K_meta, K_title>>)
        description == StoredAt(last.tr, <<K_meta, K_description>>)
    IN  (Synced /\ page \in MainPages /\ title.t = "string" /\ description.t = "string") =>
            /\ doc.title = title.s
            /\ HoldsIfPresent(doc.head, "description", description.s)
            /\ HoldsIfPresent(doc.head, "og:title", title.s)
            /\ HoldsIfPresent(doc.head, "og:description", description.s)
            /\ HoldsIfPresent(doc.head, "twitter:description", description.s)
            /\ doc.lang = last.lang

HasLink(head, rel, hreflang, href) ==
    \E i \in 1..Len(head) :
        head[i] = [tag |-> "link", key |-> rel, hreflang |-> hreflang, content |-> href]

(***************************************************************************)
(* C9.  After every updateContent(L) for a supported L, head holds a        *)
(* canonical link to the base URL, an alternate link for en (base URL) and  *)
(* for fr (base URL with ?lang=fr), and an x-default alternate to the base  *)
(* URL.                                                                     *)
(***************************************************************************)
C9_CanonicalAndAlternates ==
    (Synced /\ page \in MainPages /\ last.lang \in Supported) =>
        /\ HasLink(doc.head, "canonical", <<>>, baseURL)
        /\ HasLink(doc.head, "alternate", EN, baseURL)
        /\ HasLink(doc.head, "alternate", FR, LangURL(FR))
        /\ HasLink(doc.head, "alternate", XDefault, baseURL)

(***************************************************************************)
(* C10.  When the change handler for language L has finished, the stored    *)
(* preference, the URL (no lang parameter for en, lang=L otherwise) and the *)
(* html lang attribute all denote L.                                        *)
(***************************************************************************)
C10_ChangeConsistent ==
    (page \in MainPages /\ last.op = "change") =>
        /\ getItem(storage, "selectedLanguage") = Str(last.lang)
        /\ paramsGet(URLSearchParams(search), K_lang)
             = (IF last.lang = EN THEN Null ELSE Str(last.lang))
        /\ doc.lang = last.lang

Startup == last.op \in {"initial", "fallback"}
MenuOpen(d) == d.nav /\ d.ham /\ d.aria = "true"
MenuClosed(d) == ~d.nav /\ ~d.ham /\ d.aria = "false"

(***************************************************************************)
(* C11.  The startup synchronization (after the fetch succeeded, or the     *)
(* fallback after it failed) never closes the mobile navigation: what was   *)
(* open before the initial updateContent is open after it.                  *)
(***************************************************************************)
C11_StartupKeepsMenu ==
    Startup =>
        /\ last.pre.nav => doc.nav
        /\ last.pre.ham => doc.ham
        /\ last.pre.aria = "true" => doc.aria = "true"

C11_Witness ==
    /\ page = "main"
    /\ last.op = "initial"
    /\ Truthy(last.tr)
    /\ MenuOpen(last.pre)
    /\ MenuOpen(doc)
    /\ doc.elems # last.pre.elems

(***************************************************************************)
(* C12.  When a user-initiated language change has been processed, the      *)
(* mobile navigation is closed: the nav menu and the hamburger are not      *)
(* active and aria-expanded is false, whatever the menu state and the       *)
(* viewport width were.                                                     *)
(***************************************************************************)
C12_ChangeClosesMenu ==
    last.op = "change" => MenuClosed(doc)

(***************************************************************************)
(* C13.  When the request for i18n.json fails at startup (rejected, status  *)
(* not ok, or body not JSON), startup ends with no uncaught exception and   *)
(* no unhandled rejection, and no localized element and no title is         *)
(* blanked: the document keeps the content it was served with.              *)
(***************************************************************************)
C13_FailureKeepsDefaults ==
    (Startup /\ ~last.loaded) =>
        /\ ~uncaught
        /\ doc.title = last.pre.title
        /\ doc.elems = last.pre.elems

\* What the caller of a pending loadTranslations(lang) receives when the
\* request settles one way or the other.
Received(p, lang, ok) ==
    IF p = "legacy" THEN loadTranslationsLegacy(body, lang, ok)
    ELSE loadTranslations(translations, body, lang, ok).result

(***************************************************************************)
(* C14.  For a pending loadTranslations(lang) of a supported lang whose    *)
(* payload has no entry for lang, the value the caller receives when the    *)
(* request fails differs from the value it receives when the request        *)
(* succeeds: a failure is not reported as an ordinary empty bundle.         *)
(***************************************************************************)
C14_FailureDistinguishable ==
    page \notin MainPages =>
        \A k \in 1..Len(pending) :
            (pending[k].lang \in Supported /\ Get(body, pending[k].lang) = Undefined)
                => Received(page, pending[k].lang, FALSE) # Received(page, pending[k].lang, TRUE)

(***************************************************************************)
(* C15.  Once one loadTranslations call has completed successfully, no      *)
(* later loadTranslations call (all of them are for en or fr) issues        *)
(* another request for i18n.json.                                           *)
(***************************************************************************)
C15_CachedAfterLoad ==
    [][(page \notin MainPages /\ network.delivered > 0)
          => network'.issued = network.issued]_vars

(***************************************************************************)
(* C16.  Over a page session (startup, the preload of the other language,   *)
(* language changes, also while a request is pending) at most one request   *)
(* for i18n.json is issued as long as no request has failed.                *)
(***************************************************************************)
C16_SingleRequest ==
    network.failed = 0 => network.issued <= 1

(***************************************************************************)
(* C17.  When the fetched payload has no entry for the requested (supported)*)
(* language, the loader yields an empty object for that language and the    *)
(* synchronization that follows raises no error.                            *)
(***************************************************************************)
C17_MissingLanguageIsEmptyObject ==
    (Synced /\ last.loaded /\ last.lang \in Supported /\ Get(body, last.lang) = Undefined) =>
        /\ last.tr = EmptyObject
        /\ ~uncaught

\* A step of a language selector's change listener.
ChangeStep(newLang) ==
    \/ ChangeLanguageMain(newLang)
    \/ ChangeLanguageScript(newLang)
    \/ ChangeLanguageLegacy(newLang)

(***************************************************************************)
(* C18.  The stored preference and the visible URL are written only by a    *)
(* step of the selector's change listener: every step of startup (language  *)
(* detection, bundle load, initial synchronization, fallback) and every     *)
(* other step leaves both unchanged.                                        *)
(***************************************************************************)
C18_OnlyChangeWrites ==
    [][(storage' # storage \/ search' # search) => \E newLang \in Options : ChangeStep(newLang)]_vars

C18_Witness ==
    /\ page = "main"
    /\ last.op = "initial"
    /\ events = 0
    /\ doc.lang = FR
    /\ last.pre.lang = EN
    /\ URLSays(FR)
    /\ getItem(storage, "selectedLanguage") = Str(EN)

\* The query of a URL (from its first question mark on) and the language
\* the lang parameter of a URL carries: null when there is none.
QueryOf(url) ==
    LET parts == Split(url, <<"?">>)
    IN  IF Len(parts) = 1 THEN <<>> ELSE <<"?">> \o Join(Tail(parts), <<"?">>)
LangSignal(url) == paramsGet(URLSearchParams(QueryOf(url)), K_lang)
Signal(lang) == IF lang = EN THEN Null ELSE Str(lang)

\* The links and the og:url a main page generates for a language.
GeneratedHead(p, d, lang) ==
    IF p = "main" THEN updateSocialMetaTags(updateCanonicalAndHreflang(d, lang), lang).head
    ELSE updateSocialMetaTags(updateCanonicalAndHreflangV1(d, lang), lang).head

\* Every alternate for en or fr and the og:url in head carry the signal of
\* their language (lang for the og:url).
HeadCarries(head, lang) ==
    \A i \in 1..Len(head) :
        /\ (IsHreflang(head[i]) /\ head[i].hreflang \in Supported)
              => LangSignal(head[i].content) = Signal(head[i].hreflang)
        /\ (head[i].tag = "meta" /\ head[i].key = "og:url")
              => LangSignal(head[i].content) = Signal(lang)

(***************************************************************************)
(* C19.  One URL scheme, the query parameter lang, is used throughout: for  *)
(* L in {en, fr} the URL updateURLForLanguage(L) writes, the alternate      *)
(* generated for L and the og:url written for L carry the same signal (no   *)
(* lang parameter for en, lang=L otherwise), and initializeLanguage reads   *)
(* L back from that parameter.  After a change that synchronized, the       *)
(* address bar and the head of the document agree in this way.              *)
(***************************************************************************)
C19_SingleURLScheme ==
    page \in MainPages =>
        /\ \A lang \in Supported :
              /\ paramsGet(URLSearchParams(updateURLForLanguage(search, lang)), K_lang) = Signal(lang)
              /\ HeadCarries(GeneratedHead(page, doc, lang), lang)
              /\ lang # EN =>
                    \A store \in Storages, navigatorLanguage \in NavigatorLanguages :
                        initializeLanguage(updateURLForLanguage(search, lang), store,
                                           navigatorLanguage) = lang
        /\ (last.op = "change" /\ Truthy(last.tr)) =>
              /\ LangSignal(search) = Signal(last.lang)
              /\ HeadCarries(doc.head, last.lang)

C19_Witness ==
    /\ page = "main"
    /\ last.op = "change"
    /\ last.lang = FR
    /\ Truthy(last.tr)
    /\ search = <<"?">> \o K_utm \o <<"=">> \o <<"x">> \o <<"&">> \o K_lang \o <<"=">> \o FR
    /\ ContentOf(doc.head, "og:url") = LangURL(FR)
    /\ ContentOf(last.pre.head, "og:url") = baseURL
    /\ HasLink(doc.head, "alternate", FR, LangURL(FR))
    /\ HasLink(doc.head, "alternate", EN, baseURL)

\* The language a page's startup routine detects.
StartupLanguageOf(p, query, store, navigatorLanguage) ==
    IF p \in MainPages THEN initializeLanguage(query, store, navigatorLanguage)
    ELSE initLanguage(store, navigatorLanguage)

(***************************************************************************)
(* C20.  The preference is persisted under one fixed key: what a change     *)
(* listener stores is what the startup routine of every page reads, so      *)
(* after a change to L the startup of any page (opened without a lang       *)
(* parameter) detects L.                                                    *)
(***************************************************************************)
C20_OneStorageKey ==
    [][\A newLang \in Options :
          ChangeStep(newLang) =>
              \A p \in Pages : StartupLanguageOf(p, <<>>, storage', navLang) = newLang]_vars

(***************************************************************************)
(* The widgets of a page after a successful startup: menu, contact form,    *)
(* modal and language selector under the user's clicks and keys.            *)
(***************************************************************************)
MaxSteps == 3
UIPages == {"main", "script", "tech", "contact"}
FormPages == {"main", "script", "contact"}
\* The pages that listen for clicks outside the menu and for the Escape key.
DismissPages == {"script", "tech", "contact"}

\* The document after the startup synchronization in a language.
StartedDocument(p, lang) ==
    IF p = "main"
    THEN selectValue(updateContent(Document(HeadFull), PayloadFull, lang, TRUE), lang)
    ELSE afterLoad(p, Document(HeadFull), Get(PayloadFull, lang), lang, "initial", DesktopWidth).d

InitUI ==
    /\ page \in UIPages
    /\ search = <<>>
    /\ storage = <<>>
    /\ navLang \in {EN \o Dash \o <<"U", "S">>, FR}
    /\ body = PayloadFull
    /\ started = TRUE
    /\ pending = <<>>
    /\ i18n = IF page = "main" THEN PayloadFull ELSE Obj(EN :> EmptyObject @@ FR :> EmptyObject)
    /\ translations = IF page = "main" THEN EmptyObject ELSE PayloadFull
    /\ currentLanguage = IF page = "main" THEN EN ELSE initLanguage(storage, navLang)
    /\ isInitialLoad = (page # "main")
    /\ listening = TRUE
    /\ doc = StartedDocument(page, StartupLanguageOf(page, search, storage, navLang))
    /\ uncaught = FALSE
    /\ events = 0
    /\ innerWidth \in {MobileWidth, DesktopWidth}
    /\ network = [issued |-> IF page = "main" THEN 1 ELSE 2,
                  delivered |-> IF page = "main" THEN 1 ELSE 2, failed |-> 0]
    /\ last = NoSync
    /\ form = FormInit
    /\ modal = ModalInit

\* The document's click listener: a click outside the menu, the hamburger
\* (and, on the technical page and part_001, the selector) closes an open menu.
clickOutside(p, d) ==
    IF p \in DismissPages /\ d.nav THEN closeMobileMenu(d) ELSE d

\* The user clicks the hamburger.
ClickHamburger ==
    /\ events < MaxSteps
    /\ doc' = hamburgerListeners(page, doc)
    /\ last' = NoSync
    /\ events' = events + 1
    /\ UNCHANGED <<form, modal, page, search, storage, navLang, body, started, pending, i18n,
                   translations, currentLanguage, isInitialLoad, listening, uncaught,
                   innerWidth, network>>

\* The user clicks a link of the menu: every listener of the link closes it.
ClickNavLink ==
    /\ events < MaxSteps
    /\ doc' = closeMobileMenu(doc)
    /\ last' = NoSync
    /\ events' = events + 1
    /\ UNCHANGED <<form, modal, page, search, storage, navLang, body, started, pending, i18n,
                   translations, currentLanguage, isInitialLoad, listening, uncaught,
                   innerWidth, network>>

\* The user clicks somewhere else in the page.
ClickOutside ==
    /\ page \in DismissPages
    /\ events < MaxSteps
    /\ doc' = clickOutside(page, doc)
    /\ last' = NoSync
    /\ events' = events + 1
    /\ UNCHANGED <<form, modal, page, search, storage, navLang, body, started, pending, i18n,
                   translations, currentLanguage, isInitialLoad, listening, uncaught,
                   innerWidth, network>>

\* The user presses Escape: the keydown listener of the menu and, on the
\* technical page, that of the modal.
PressEscape ==
    /\ page \in DismissPages
    /\ events < MaxSteps
    /\ doc' = IF doc.nav THEN closeMobileMenu(doc) ELSE doc
    /\ modal' = IF page = "tech" /\ modal.active
                THEN [closeTechModal(modal) EXCEPT !.closedBy = "escape"]
                ELSE modal
    /\ last' = NoSync
    /\ events' = events + 1
    /\ UNCHANGED <<form, page, search, storage, navLang, body, started, pending, i18n,
                   translations, currentLanguage, isInitialLoad, listening, uncaught,
                   innerWidth, network>>

\* openTechModal() is called.
OpenModal ==
    /\ page = "tech"
    /\ events < MaxSteps
    /\ modal' = openTechModal(modal)
    /\ last' = NoSync
    /\ events' = events + 1
    /\ UNCHANGED <<form, page, search, storage, navLang, body, started, pending, i18n,
                   translations, currentLanguage, isInitialLoad, listening, doc, uncaught,
                   innerWidth, network>>

\* A click on the close button or on the backdrop of the modal: its own
\* listener closes the modal, and the document's click listener sees a click
\* outside the menu.
ClickModal(target) ==
    /\ page = "tech"
    /\ events < MaxSteps
    /\ modal' = [closeTechModal(modal) EXCEPT !.closedBy = target]
    /\ doc' = clickOutside(page, doc)
    /\ last' = NoSync
    /\ events' = events + 1
    /\ UNCHANGED <<form, page, search, storage, navLang, body, started, pending, i18n,
                   translations, currentLanguage, isInitialLoad, listening, uncaught,
                   innerWidth, network>>

\* The user selects a language; every bundle is in memory since startup.
SelectLanguage(newLang) ==
    /\ events < MaxSteps
    /\ newLang # doc.selector
    /\ IF page = "main"
       THEN /\ storage' = setItem(storage, "selectedLanguage", newLang)
            /\ doc' = updateContent([doc EXCEPT !.selector = newLang], i18n, newLang, FALSE)
            /\ search' = updateURLForLanguage(search, newLang)
            /\ last' = Sync("change", newLang, Get(i18n, newLang), doc, TRUE)
            /\ UNCHANGED currentLanguage
       ELSE /\ storage' = setItem(storage, "preferredLanguage", newLang)
            /\ currentLanguage' = newLang
            /\ doc' = afterLoad(page, [doc EXCEPT !.selector = newLang],
                                Get(translations, newLang), newLang, "change", innerWidth).d
            /\ last' = Sync("change", newLang, Get(translations, newLang), doc, TRUE)
            /\ UNCHANGED search
    /\ events' = events + 1
    /\ UNCHANGED <<form, modal, page, navLang, body, started, pending, i18n, translations,
                   isInitialLoad, listening, uncaught, innerWidth, network>>

\* The user types into #name or #message.
TypeIntoField(i, text) ==
    /\ page \in FormPages
    /\ events < MaxSteps
    /\ form.shown
    /\ doc.elems[i].value # text
    /\ doc' = [doc EXCEPT !.elems[i].value = text]
    /\ form' = [form EXCEPT !.typed = @ \cup {i}]
    /\ last' = NoSync
    /\ events' = events + 1
    /\ UNCHANGED <<modal, page, search, storage, navLang, body, started, pending, i18n,
                   translations, currentLanguage, isInitialLoad, listening, uncaught,
                   innerWidth, network>>

\* The user types into #email.
TypeEmail(text) ==
    /\ page \in FormPages
    /\ events < MaxSteps
    /\ form.shown
    /\ form.email # text
    /\ form' = [form EXCEPT !.email = text]
    /\ last' = NoSync
    /\ events' = events + 1
    /\ UNCHANGED <<modal, page, search, storage, navLang, body, started, pending, i18n,
                   translations, currentLanguage, isInitialLoad, listening, doc, uncaught,
                   innerWidth, network>>

\* The submit listeners of the page.
submitListeners(p, d, f) ==
    IF p = "contact" THEN submitContact(d, f)
    ELSE IF p = "script" THEN submitScript(d, f)
    ELSE submitMain(d, f)

\* The user submits the form (the button is displayed and enabled).
SubmitForm ==
    /\ page \in FormPages
    /\ events < MaxSteps
    /\ form.shown /\ ~form.disabled
    /\ doc' = submitListeners(page, doc, form).d
    /\ form' = submitListeners(page, doc, form).f
    /\ last' = NoSync
    /\ events' = events + 1
    /\ UNCHANGED <<modal, page, search, storage, navLang, body, started, pending, i18n,
                   translations, currentLanguage, isInitialLoad, listening, uncaught,
                   innerWidth, network>>

\* The POST of part_001 is answered, or throws.
PostSettles(outcome) ==
    /\ page = "contact"
    /\ form.waiting
    /\ form' = afterPost(form, outcome)
    /\ last' = NoSync
    /\ UNCHANGED <<modal, page, search, storage, navLang, body, started, pending, i18n,
                   translations, currentLanguage, isInitialLoad, listening, doc, uncaught,
                   events, innerWidth, network>>

\* The timer of a simulated send fires (main page, script.js).
TimerFires ==
    /\ page \in {"main", "script"}
    /\ form.waiting
    /\ IF page = "main"
       THEN form' = afterTimerMain(form) /\ UNCHANGED doc
       ELSE /\ doc' = afterSendScript(doc, form).d
            /\ form' = afterSendScript(doc, form).f
    /\ last' = NoSync
    /\ UNCHANGED <<modal, page, search, storage, navLang, body, started, pending, i18n,
                   translations, currentLanguage, isInitialLoad, listening, uncaught,
                   events, innerWidth, network>>

\* The user clicks the button of the success message: window.resetForm().
ClickResetForm ==
    /\ page \in {"main", "contact"}
    /\ events < MaxSteps
    /\ form.success
    /\ LET out == IF page = "main" THEN resetFormMain(doc, form) ELSE resetForm(doc, form)
       IN  doc' = out.d /\ form' = out.f
    /\ last' = NoSync
    /\ events' = events + 1
    /\ UNCHANGED <<modal, page, search, storage, navLang, body, started, pending, i18n,
                   translations, currentLanguage, isInitialLoad, listening, uncaught,
                   innerWidth, network>>

NextUI ==
    \/ ClickHamburger
    \/ ClickNavLink
    \/ ClickOutside
    \/ PressEscape
    \/ OpenModal
    \/ \E target \in {"button", "backdrop"} : ClickModal(target)
    \/ \E newLang \in Options : SelectLanguage(newLang)
    \/ \E i \in Inputs, text \in {<<>>, T_Typed, T_Blank} : TypeIntoField(i, text)
    \/ \E text \in {<<>>, T_Mail, T_NoMail} : TypeEmail(text)
    \/ SubmitForm
    \/ \E outcome \in Outcomes : PostSettles(outcome)
    \/ TimerFires
    \/ ClickResetForm

UISpec == InitUI /\ [][NextUI]_vars

\* A send that was started finishes: the request is answered or fails, the
\* timer fires.
UILive ==
    /\ UISpec
    /\ WF_vars(\E outcome \in Outcomes : PostSettles(outcome))
    /\ WF_vars(TimerFires)

\* Uninitialized: the initial synchronization has not been performed yet.  The
\* main pages track it in isInitialLoad; on the other pages it lasts until
\* initLanguage() has resumed from its await.
Uninitialized ==
    IF page \in MainPages THEN isInitialLoad
    ELSE ~started \/ \E k \in 1..Len(pending) : pending[k].then = "initial"

\* A step that performs the initial synchronization.
InitialSyncStep ==
    \/ FetchResolvedMain
    \/ FetchRejectedMain
    \/ \E k \in 1..Len(pending), ok \in BOOLEAN :
          /\ pending[k].then = "initial"
          /\ FetchSettledScript(k, ok) \/ FetchSettledLegacy(k, ok)

(***************************************************************************)
(* C21.  The controller goes from Uninitialized to Ready exactly once: the  *)
(* initial synchronization happens in the Uninitialized state and ends it   *)
(* for good, and no user-initiated language change is processed while the   *)
(* controller is still Uninitialized.                                       *)
(***************************************************************************)
C21_ReadyOnce ==
    [][/\ InitialSyncStep => Uninitialized /\ ~Uninitialized'
       /\ ~Uninitialized => ~Uninitialized'
       /\ \A newLang \in Options : ChangeStep(newLang) => ~Uninitialized]_vars

\* The last synchronization wrote the texts of a bundle of a supported
\* language into the page and ran to its end.
WroteBundle ==
    /\ Synced
    /\ last.lang \in Supported
    /\ Truthy(last.tr)
    /\ page \notin MainPages => Truthy(Get(last.tr, K_meta))
    /\ ~uncaught

(***************************************************************************)
(* C22.  Whatever the order in which the pending loads complete, after a    *)
(* synchronization has written a bundle's texts the lang attribute of the   *)
(* html element and the value of the language selector name the language    *)
(* of that bundle.                                                          *)
(***************************************************************************)
C22_LabelMatchesContent ==
    WroteBundle => doc.lang = last.lang /\ doc.selector = last.lang

\* Every request for i18n.json has been answered with the payload, and every
\* synchronization ran to its end.
AllSettled == started /\ pending = <<>> /\ network.failed = 0 /\ ~uncaught

\* The language selected most recently: by the startup routine or, after
\* that, by the user.
Selected == IF page \in MainPages THEN doc.selector ELSE currentLanguage

\* The headline the payload holds for a language.
HeadlineIn(lang) == Get(Get(Get(body, lang), K_hero), K_title)

(***************************************************************************)
(* C23.  Last request wins: once all requests have been answered, the page  *)
(* shows the content of the language selected most recently; a response     *)
(* that arrives late for a superseded language does not overwrite it.       *)
(***************************************************************************)
C23_LastRequestWins ==
    (AllSettled /\ HeadlineIn(Selected) \notin Absent) =>
        doc.elems[1].text = JSString(HeadlineIn(Selected))

\* The string a language's bundle stores for the key of element i.
StringFor(lang, i) == StoredAt(Get(body, lang), splitPath(KeyOf(i)))

\* An element shows a string: as its text, its value or one of the
\* attributes a synchronization writes.
Shows(el, chars) ==
    \/ el.text = chars
    \/ el.value = chars
    \/ \E a \in {"placeholder", "alt", "aria-label"} :
          hasAttribute(el, a) /\ getAttribute(el, a) = chars

\* The user's only action so far was selecting a language, and the
\* synchronization of that change has been performed.
CompletedSwitch == last.op = "change" /\ events = 1 /\ WroteBundle

(***************************************************************************)
(* C24.  After a completed switch to language B, no element bound to a key  *)
(* that both bundles contain (with different strings) still shows the       *)
(* string of the other language A, in its text, in an attribute or in the   *)
(* value of a field the user has not edited.                                *)
(***************************************************************************)
C24_NoStaleString ==
    CompletedSwitch =>
        \A i \in 1..Len(doc.elems), A \in Supported \ {last.lang} :
            LET a == StringFor(A, i)
                b == StringFor(last.lang, i)
            IN  (a.t = "string" /\ b.t = "string" /\ a.s # b.s /\ a.s # <<>>) =>
                    ~Shows(doc.elems[i], a.s)

\* The alternate links of a head for one hreflang code.
Alternates(head, code) ==
    {i \in 1..Len(head) : IsHreflang(head[i]) /\ head[i].hreflang = code}

(***************************************************************************)
(* C26.  After a synchronization of a main page in a supported language the *)
(* head holds exactly one alternate link for each of en, fr and x-default,  *)
(* and the x-default link points to the base URL.                           *)
(***************************************************************************)
C26_OneAlternatePerCode ==
    (page \in MainPages /\ Synced /\ Truthy(last.tr) /\ last.lang \in Supported) =>
        /\ \A code \in {EN, FR, XDefault} : Cardinality(Alternates(doc.head, code)) = 1
        /\ \A i \in Alternates(doc.head, XDefault) : doc.head[i].content = baseURL

(***************************************************************************)
(* C27.  Round trip across a reload: after the user has selected L on a     *)
(* main page (preference stored, URL rewritten), running the startup        *)
(* detection on the resulting URL and storage yields L, whatever the URL    *)
(* and the storage were before.                                             *)
(***************************************************************************)
C27_RoundTrip ==
    [][\A newLang \in Options :
          ChangeLanguageMain(newLang) =>
              initializeLanguage(search', storage', navLang) = newLang]_vars

\* English was selected on a page opened with ?utm=x&lang=de by a French
\* browser: the lang parameter is gone, the rest of the query is kept, and
\* only the stored preference makes the next startup choose English.
C27_Witness ==
    /\ page = "main"
    /\ last.op = "change"
    /\ last.lang = EN
    /\ last.pre.selector = FR
    /\ navLang = FR
    /\ search = <<"?">> \o K_utm \o <<"=">> \o <<"x">>
    /\ getItem(storage, "selectedLanguage") = Str(EN)
    /\ initializeLanguage(search, storage, navLang) = EN
    /\ initializeLanguage(search, <<>>, navLang) = FR

\* The fields bound to a localization key that a page's validation requires,
\* with the error the validation shows for each.
RequiredFields(p) ==
    IF p = "contact" THEN {NameField, MessageField}
    ELSE IF p = "script" THEN {NameField}
    ELSE {}
RequiredError(i) == IF i = NameField THEN "Name is required" ELSE "Message is required"

(***************************************************************************)
(* C25.  Localization does not defeat the validation of required fields:    *)
(* when the form is submitted and the user has never typed into a required  *)
(* field that carries a data-i18n key, the submit is rejected with that     *)
(* field's "is required" error and no request is sent.                      *)
(***************************************************************************)
C25_RequiredNotDefeated ==
    [][SubmitForm =>
          \A i \in RequiredFields(page) :
              i \notin form.typed =>
                  /\ RequiredError(i) \in form'.errors
                  /\ form'.sent = form.sent
                  /\ ~form'.waiting]_vars

(***************************************************************************)
(* C28.  The three marks of the menu state stay in step under hamburger     *)
(* clicks, link clicks, clicks outside, Escape and language changes: the    *)
(* menu has class active iff the hamburger has class active iff             *)
(* aria-expanded is "true".                                                 *)
(***************************************************************************)
C28_MenuInSync ==
    /\ doc.nav <=> doc.ham
    /\ doc.nav <=> (doc.aria = "true")

\* What the user sees of the modal: whether it is active and whether the
\* body scrolls.
ModalView(m) == <<m.active, m.overflow>>

(***************************************************************************)
(* C30.  Scrolling of the background is blocked (body overflow hidden)      *)
(* exactly when the technical modal is active; Escape and a click on the    *)
(* backdrop close an active modal and change nothing of an inactive one.    *)
(***************************************************************************)
C30_ModalBlocksScroll ==
    /\ [](modal.active <=> modal.overflow = "hidden")
    /\ [][(page = "tech" /\ (PressEscape \/ ClickModal("backdrop"))) =>
             /\ ~modal'.active
             /\ ~modal.active => ModalView(modal') = ModalView(modal)]_vars

\* The modal was opened and Escape closed it: the body scrolls again.
C30_Witness ==
    /\ page = "tech"
    /\ modal.closedBy = "escape"
    /\ ~modal.active
    /\ modal.overflow = ""

(***************************************************************************)
(* C29.  A submission of the contact form ends in a usable state: whenever  *)
(* a send is under way, the button is eventually enabled again and the      *)
(* loading state removed; at every moment exactly one of the form and the   *)
(* success message is displayed; the success message is displayed only      *)
(* after a response with an ok status; resetForm brings the form back.      *)
(***************************************************************************)
C29_FormEndsUsable ==
    /\ form.waiting ~> (~form.disabled /\ ~form.loading)
    /\ [](form.shown # form.success)
    /\ [](form.success => form.answered)
    /\ [][ClickResetForm => form'.shown /\ ~form'.success]_vars
====
